---- MODULE Spec2Model ----
(***************************************************************************)
(* query-optimistic: the active-query registry (QueryRegistry), the        *)
(* update-application engine (applyCollectionUpdate), the standalone       *)
(* channel (CollectionChannel / EntityChannel) and the mutation lifecycle  *)
(* of useMutation (onMutate / onSuccess / onError).                        *)
(*                                                                         *)
(* The external cache store (queryClient.getQueryData / setQueryData) is   *)
(* the function `cache` from cache key to stored value; getData reads it   *)
(* and setData(updater) stores updater(current value).                     *)
(***************************************************************************)
EXTENDS Integers, Sequences, FiniteSets, TLC

(***************************************************************************)
(* Bounds of the model.                                                    *)
(***************************************************************************)
\* number of transactions the optimistic callback may push in one mutate
MaxBatch == 2
\* number of standalone channel method calls
MaxCalls == 1
\* the field v of an item ranges over 0 .. NumVals - 1
NumVals == 2
\* number of items of a fetched collection drawn for a direct call
MaxLen == 3
\* number of direct registry.register / unregister calls
MaxOps == 3

(***************************************************************************)
(* Items. An item is an object {id, v} that may carry the key _optimistic  *)
(* (here opt) with the marker {id: token, status}.                         *)
(***************************************************************************)
\* tokens are nanoid() values: one per useMutation invocation and one per
\* channel instance; NoToken is what item._optimistic?.id yields without marker
NoToken == "<undefined>"
MutationToken(m) == m
ChannelToken(ch) == ch

Item(i, val) == [id |-> i, v |-> val]

\* `undefined` where the code expects an object (payload.data, the response)
Undefined == [undefined |-> TRUE]

Truthy(d) == d # Undefined

\* payload.id of a payload without id
NoId == "<undefined>"

\* JS truthiness of payload.id: undefined and "" are falsy
TruthyId(i) == i # NoId /\ i # ""

\* { ...item, ...partial }
Merge(item, partial) ==
  [f \in (DOMAIN item) \cup (DOMAIN partial) |->
     IF f \in DOMAIN partial THEN partial[f] ELSE item[f]]

\* { ...data, _optimistic: { id, status: 'pending' } }
Stamp(d, token) == Merge(d, [opt |-> [id |-> token, status |-> "pending"]])

\* item._optimistic?.id
TokenOf(item) == IF "opt" \in DOMAIN item THEN item.opt.id ELSE NoToken

(***************************************************************************)
(* Caller-supplied functions. A predicate (where) and a transform (update) *)
(* are values the payload carries; Eval* applies them.                     *)
(***************************************************************************)
NoWhere == [kind |-> "none", arg |-> NoToken]
\* (item) => item._optimistic?.id === optimisticId
TokenIs(token) == [kind |-> "token", arg |-> token]
\* a caller's predicate: (item) => item.v === 0
VIsZero == [kind |-> "vIsZero", arg |-> NoToken]

EvalWhere(w, item) ==
  CASE w.kind = "token" -> TokenOf(item) = w.arg
    [] w.kind = "vIsZero" -> item.v = 0
    [] OTHER -> FALSE

NoUpdate == [kind |-> "none", arg |-> Undefined]
\* a caller's transform: (item) => ({ ...item, v: item.v + 1 })
Bump == [kind |-> "bump", arg |-> Undefined]
\* (item) => ({ ...item, ...optimisticData })
MergeWith(d) == [kind |-> "merge", arg |-> d]
\* () => data
Const(d) == [kind |-> "const", arg |-> d]

EvalUpdate(u, item) ==
  CASE u.kind \in {"bump", "throwIfV1"} -> [item EXCEPT !.v = (@ + 1) % NumVals]
    [] u.kind = "merge" -> Merge(item, u.arg)
    [] u.kind = "const" -> u.arg
    [] OTHER -> item

Payload(d, i, w, u) == [data |-> d, id |-> i, where |-> w, update |-> u]

(***************************************************************************)
(* Stored values. Every cache slot holds a record; `loaded = FALSE` is the *)
(* undefined that getData returns for a query without data.                *)
(***************************************************************************)
Coll(xs) == [loaded |-> TRUE, items |-> xs]
AbsentColl == [loaded |-> FALSE, items |-> <<>>]

Pag(ps, pp) == [loaded |-> TRUE, pages |-> ps, pageParams |-> pp]
AbsentPag == [loaded |-> FALSE, pages |-> <<>>, pageParams |-> <<>>]

Ent(e) == [loaded |-> TRUE, value |-> e]
AbsentEnt == [loaded |-> FALSE, value |-> Undefined]

(***************************************************************************)
(* The update-application engine.                                          *)
(***************************************************************************)
\* getId(item) with the descriptor's id: (item) => item.id; an item without
\* the field yields undefined
GetId(item) == IF "id" \in DOMAIN item THEN item.id ELSE NoId

\* a matching rule under which an instruction without id and predicate
\* matches every item
MatchesAllWithoutSelector(payload, item) ==
  IF TruthyId(payload.id) THEN GetId(item) = payload.id
  ELSE IF payload.where.kind = "none" THEN TRUE
  ELSE EvalWhere(payload.where, item)

Matches(payload, item) ==
  IF TruthyId(payload.id) THEN GetId(item) = payload.id
  ELSE EvalWhere(payload.where, item)

\* an engine whose update merges the partial item before it looks for a
\* transform
applyCollectionUpdateMergeFirst(items, action, payload) ==
  CASE action = "prepend" ->
         IF Truthy(payload.data) THEN <<payload.data>> \o items ELSE items
    [] action = "append" ->
         IF Truthy(payload.data) THEN Append(items, payload.data) ELSE items
    [] action = "update" ->
         [i \in 1..Len(items) |->
            IF Matches(payload, items[i]) /\ Truthy(payload.data)
              THEN Merge(items[i], payload.data)
            ELSE IF Matches(payload, items[i]) /\ payload.update.kind # "none"
              THEN EvalUpdate(payload.update, items[i])
            ELSE items[i]]
    [] action = "delete" ->
         SelectSeq(items, LAMBDA item :
            IF TruthyId(payload.id) THEN GetId(item) # payload.id
            ELSE IF payload.where.kind # "none"
              THEN ~EvalWhere(payload.where, item)
            ELSE TRUE)
    [] action = "replace" ->
         [i \in 1..Len(items) |->
            IF Matches(payload, items[i]) /\ Truthy(payload.data)
              THEN payload.data ELSE items[i]]
    [] OTHER -> items

\* an engine whose delete returns the survivors in reverse order
applyCollectionUpdateReversing(items, action, payload) ==
  CASE action = "prepend" ->
         IF Truthy(payload.data) THEN <<payload.data>> \o items ELSE items
    [] action = "append" ->
         IF Truthy(payload.data) THEN Append(items, payload.data) ELSE items
    [] action = "update" ->
         [i \in 1..Len(items) |->
            IF Matches(payload, items[i]) /\ payload.update.kind # "none"
              THEN EvalUpdate(payload.update, items[i])
            ELSE IF Matches(payload, items[i]) /\ Truthy(payload.data)
              THEN Merge(items[i], payload.data)
            ELSE items[i]]
    [] action = "delete" ->
         LET kept == SelectSeq(items, LAMBDA item :
                       IF TruthyId(payload.id) THEN GetId(item) # payload.id
                       ELSE IF payload.where.kind # "none"
                         THEN ~EvalWhere(payload.where, item)
                       ELSE TRUE)
         IN [i \in 1..Len(kept) |-> kept[Len(kept) + 1 - i]]
    [] action = "replace" ->
         [i \in 1..Len(items) |->
            IF Matches(payload, items[i]) /\ Truthy(payload.data)
              THEN payload.data ELSE items[i]]
    [] OTHER -> items

\* an engine that adds a prepended item at the end and an appended item at
\* the front
applyCollectionUpdateSwapped(items, action, payload) ==
  CASE action = "prepend" ->
         IF Truthy(payload.data) THEN Append(items, payload.data) ELSE items
    [] action = "append" ->
         IF Truthy(payload.data) THEN <<payload.data>> \o items ELSE items
    [] action = "update" ->
         [i \in 1..Len(items) |->
            IF Matches(payload, items[i]) /\ payload.update.kind # "none"
              THEN EvalUpdate(payload.update, items[i])
            ELSE IF Matches(payload, items[i]) /\ Truthy(payload.data)
              THEN Merge(items[i], payload.data)
            ELSE items[i]]
    [] action = "delete" ->
         SelectSeq(items, LAMBDA item :
            IF TruthyId(payload.id) THEN GetId(item) # payload.id
            ELSE IF payload.where.kind # "none"
              THEN ~EvalWhere(payload.where, item)
            ELSE TRUE)
    [] action = "replace" ->
         [i \in 1..Len(items) |->
            IF Matches(payload, items[i]) /\ Truthy(payload.data)
              THEN payload.data ELSE items[i]]
    [] OTHER -> items

applyCollectionUpdate(items, action, payload) ==
  CASE action = "prepend" ->
         IF Truthy(payload.data) THEN <<payload.data>> \o items ELSE items
    [] action = "append" ->
         IF Truthy(payload.data) THEN Append(items, payload.data) ELSE items
    [] action = "update" ->
         [i \in 1..Len(items) |->
            IF Matches(payload, items[i]) /\ payload.update.kind # "none"
              THEN EvalUpdate(payload.update, items[i])
            ELSE IF Matches(payload, items[i]) /\ Truthy(payload.data)
              THEN Merge(items[i], payload.data)
            ELSE items[i]]
    [] action = "delete" ->
         SelectSeq(items, LAMBDA item :
            IF TruthyId(payload.id) THEN GetId(item) # payload.id
            ELSE IF payload.where.kind # "none"
              THEN ~EvalWhere(payload.where, item)
            ELSE TRUE)
    [] action = "replace" ->
         [i \in 1..Len(items) |->
            IF Matches(payload, items[i]) /\ Truthy(payload.data)
              THEN payload.data ELSE items[i]]
    [] OTHER -> items

(***************************************************************************)
(* Bindings (RegisteredEntry). Each useQuery instance owns one binding;    *)
(* its queryKey selects the cache slot. Two instances of the same query    *)
(* with the same params have the same queryKey.                            *)
(***************************************************************************)
Bindings == {"b1", "b2", "b3", "b4"}

\* b5, which only direct calls see, is the same collection query mounted
\* with other params
Kind(b) ==
  CASE b \in {"b1", "b2", "b5", "q1e1", "q1e2", "q1e3", "q1e4"} -> "collection"
    [] b = "b3" -> "paginated"
    [] OTHER -> "entity"

Name(b) ==
  IF b \in {"b4", "q2e1", "q2e2", "q2e3", "q2e4"} THEN "user" ELSE "todos"

\* queryKey: b1 and b2 are two components mounting the same query; the
\* params of b5 give it a key of its own
Slot(b) ==
  CASE b \in {"b1", "b2", "q1e1", "q1e2", "q1e3", "q1e4"} -> "k1"
    [] b = "b3" -> "k2"
    [] b = "b5" -> "k4"
    [] OTHER -> "k3"

Slots == {"k1", "k2", "k3", "k4"}
Names == {"todos", "user"}

VARIABLES
  entries,    \* QueryRegistry.entries: Map of name -> Set of bindings
  cache,      \* the cache store: slot -> stored value
  held,       \* per standalone call: the rollback functions it returned
  calls,      \* number of standalone channel calls made
  phase,      \* mutation -> idle | pending | synced | committed | rolledback
  context,    \* mutation -> { rollbacks, optimisticId, transactions }
  response,   \* mutation -> the settled value of mutationFn
  events,     \* mutation -> the steps its handlers have executed, in order
  unmounted,  \* the useQuery instances whose effect cleanup has run
  snapshot,   \* mutation -> the cache when its onMutate started
  lastCall,   \* the arguments of the latest direct registry.applyUpdate call
  ops,        \* the direct registry.register / unregister calls, in order
  scan,       \* the applyUpdate call whose loop is running: its locals
  queries     \* useQuery instance -> its render values and installed effect

vars == <<entries, cache, held, calls, phase, context, response, events,
          unmounted, snapshot, lastCall, ops, scan, queries>>

\* the useMutation invocations
Mutations == {"m1"}

(***************************************************************************)
(* QueryRegistry                                                           *)
(***************************************************************************)
RECURSIVE SeqContains(_, _)
SeqContains(s, x) ==
  IF s = <<>> THEN FALSE
  ELSE IF Head(s) = x THEN TRUE ELSE SeqContains(Tail(s), x)

\* The Map is a function whose domain is the set of its keys; a Set is the
\* sequence of its elements in insertion order.
NoEntries == [n \in {} |-> <<>>]

\* Set.add keeps the position of an element that is already present
\* a register that adds the entry to a list, present or not
registerAppending(reg, b) ==
  IF Name(b) \in DOMAIN reg THEN [reg EXCEPT ![Name(b)] = Append(@, b)]
  ELSE [n \in (DOMAIN reg) \cup {Name(b)} |->
          IF n = Name(b) THEN <<b>> ELSE reg[n]]

register(reg, b) ==
  LET withKey ==
        IF Name(b) \in DOMAIN reg THEN reg
        ELSE [n \in (DOMAIN reg) \cup {Name(b)} |->
                IF n = Name(b) THEN <<>> ELSE reg[n]]
  IN IF SeqContains(withKey[Name(b)], b) THEN withKey
     ELSE [withKey EXCEPT ![Name(b)] = Append(@, b)]

\* an unregister that keeps the key of an emptied set
unregisterKeepingName(reg, b) ==
  IF Name(b) \notin DOMAIN reg THEN reg
  ELSE [reg EXCEPT ![Name(b)] = SelectSeq(@, LAMBDA e : e # b)]

unregister(reg, b) ==
  IF Name(b) \notin DOMAIN reg THEN reg
  ELSE LET rest == SelectSeq(reg[Name(b)], LAMBDA e : e # b)
       IN IF rest = <<>>
            THEN [n \in (DOMAIN reg) \ {Name(b)} |-> reg[n]]
            ELSE [reg EXCEPT ![Name(b)] = rest]

\* a lookup that returns the bindings of every name
getByNameAnyName(reg, name) ==
  (IF "todos" \in DOMAIN reg THEN reg["todos"] ELSE <<>>)
    \o (IF "user" \in DOMAIN reg THEN reg["user"] ELSE <<>>)

\* Array.from(this.entries.get(name) ?? [])
getByName(reg, name) == IF name \in DOMAIN reg THEN reg[name] ELSE <<>>

\* entry.setData(updater) on the cache store
setData(c, b, value) == [c EXCEPT ![Slot(b)] = value]

\* an updater that applies the instruction to every page
UpdaterResultAllPages(b, prev, action, payload) ==
  CASE Kind(b) = "collection" ->
         IF ~prev.loaded THEN prev
         ELSE [prev EXCEPT !.items = applyCollectionUpdate(@, action, payload)]
    [] Kind(b) = "paginated" ->
         IF ~prev.loaded THEN prev
         ELSE [prev EXCEPT !.pages =
                 [i \in 1..Len(@) |->
                    applyCollectionUpdate(@[i], action, payload)]]
    [] OTHER ->
         IF action = "update" /\ payload.update.kind # "none"
           THEN IF prev.loaded
                  THEN [prev EXCEPT !.value = EvalUpdate(payload.update, @)]
                  ELSE prev
         ELSE IF action = "replace" /\ Truthy(payload.data)
           THEN Ent(payload.data)
         ELSE prev

\* the value one entry's updater computes from the stored value prev
UpdaterResult(b, prev, action, payload) ==
  CASE Kind(b) = "collection" ->
         IF ~prev.loaded THEN prev
         ELSE [prev EXCEPT !.items = applyCollectionUpdate(@, action, payload)]
    [] Kind(b) = "paginated" ->
         IF ~prev.loaded THEN prev
         ELSE [prev EXCEPT !.pages =
                 [i \in 1..Len(@) |->
                    IF i = 1 THEN applyCollectionUpdate(@[i], action, payload)
                    ELSE @[i]]]
    [] OTHER ->
         IF action = "update" /\ payload.update.kind # "none"
           THEN IF prev.loaded
                  THEN [prev EXCEPT !.value = EvalUpdate(payload.update, @)]
                  ELSE prev
         ELSE IF action = "replace" /\ Truthy(payload.data)
           THEN Ent(payload.data)
         ELSE prev

\* the rollback closure () => entry.setData(() => previous)
Rollback(b, previous) == [entry |-> b, previous |-> previous]

\* a rollback that undoes by dropping the first stored item instead of
\* restoring the captured value
RestoreByUndo(c, rb) ==
  LET current == c[Slot(rb.entry)]
  IN IF "items" \in DOMAIN current /\ current.items # <<>>
       THEN setData(c, rb.entry, [current EXCEPT !.items = Tail(@)])
       ELSE setData(c, rb.entry, rb.previous)

Restore(c, rb) == setData(c, rb.entry, rb.previous)

\* rollbacks.forEach((rb) => rb())
RECURSIVE RunRollbacks(_, _)
RunRollbacks(c, rbs) ==
  IF rbs = <<>> THEN c
  ELSE RunRollbacks(Restore(c, Head(rbs)), Tail(rbs))

\* the loop of applyUpdate over the entries found by getByName
RECURSIVE ApplyLoop(_, _, _, _, _)
ApplyLoop(c, rbs, es, action, payload) ==
  IF es = <<>> THEN [cache |-> c, rollbacks |-> rbs]
  ELSE LET b == Head(es)
           previous == c[Slot(b)]
       IN ApplyLoop(setData(c, b, UpdaterResult(b, previous, action, payload)),
                    Append(rbs, Rollback(b, previous)),
                    Tail(es), action, payload)

\* an applyUpdate that scans the bindings of every name
applyUpdateEveryName(reg, c, name, action, payload) ==
  ApplyLoop(c, <<>>, getByName(reg, name) \o
                      (IF name = "todos" THEN getByName(reg, "user")
                       ELSE getByName(reg, "todos")),
            action, payload)

applyUpdate(reg, c, name, action, payload) ==
  ApplyLoop(c, <<>>, getByName(reg, name), action, payload)

(***************************************************************************)
(* Standalone channel: CollectionChannel and EntityChannel. Every method   *)
(* returns the rollback functions of one applyUpdate call.                 *)
(***************************************************************************)
ChannelPrepend(reg, c, target, token, data) ==
  applyUpdate(reg, c, target, "prepend",
              Payload(Stamp(data, token), NoId, NoWhere, NoUpdate))

ChannelAppend(reg, c, target, token, data) ==
  applyUpdate(reg, c, target, "append",
              Payload(Stamp(data, token), NoId, NoWhere, NoUpdate))

ChannelUpdate(reg, c, target, id, updateFn) ==
  applyUpdate(reg, c, target, "update",
              Payload(Undefined, id, NoWhere, updateFn))

ChannelUpdateWhere(reg, c, target, where, updateFn) ==
  applyUpdate(reg, c, target, "update",
              Payload(Undefined, NoId, where, updateFn))

ChannelDelete(reg, c, target, id) ==
  applyUpdate(reg, c, target, "delete",
              Payload(Undefined, id, NoWhere, NoUpdate))

ChannelDeleteWhere(reg, c, target, where) ==
  applyUpdate(reg, c, target, "delete",
              Payload(Undefined, NoId, where, NoUpdate))

EntityUpdate(reg, c, target, updateFn) ==
  applyUpdate(reg, c, target, "update",
              Payload(Undefined, NoId, NoWhere, updateFn))

EntityReplace(reg, c, target, data) ==
  applyUpdate(reg, c, target, "replace",
              Payload(data, NoId, NoWhere, NoUpdate))

\* the items a caller adds, and the entity a caller substitutes
NewItem == Item("tmp1", 0)
OtherItem == Item("tmp2", 1)
NewUser == Item("u", 1)

\* the standalone calls a caller makes
ChannelMethods ==
  {"prepend", "append", "update", "updateWhere", "delete", "deleteWhere",
   "entityUpdate", "entityReplace"}

ChannelResult(method, reg, c, token) ==
  CASE method = "prepend" -> ChannelPrepend(reg, c, "todos", token, NewItem)
    [] method = "append" -> ChannelAppend(reg, c, "todos", token, NewItem)
    [] method = "update" -> ChannelUpdate(reg, c, "todos", "1", Bump)
    [] method = "updateWhere" ->
         ChannelUpdateWhere(reg, c, "todos", VIsZero, Bump)
    [] method = "delete" -> ChannelDelete(reg, c, "todos", "1")
    [] method = "deleteWhere" -> ChannelDeleteWhere(reg, c, "todos", VIsZero)
    [] method = "entityUpdate" -> EntityUpdate(reg, c, "user", Bump)
    [] OTHER -> EntityReplace(reg, c, "user", NewUser)

(***************************************************************************)
(* useMutation: the transactions pushed by the batched channel, and the    *)
(* handlers onMutate, onSuccess, onError.                                  *)
(***************************************************************************)
Tx(target, action, data, id, update, sync) ==
  [target |-> target, action |-> action, data |-> data, id |-> id,
   where |-> NoWhere, update |-> update, sync |-> sync]

BatchedPrepend(target, data, sync) ==
  Tx(target, "prepend", data, NoId, NoUpdate, sync)
BatchedAppend(target, data, sync) ==
  Tx(target, "append", data, NoId, NoUpdate, sync)
BatchedUpdate(target, id, updateFn, sync) ==
  Tx(target, "update", Undefined, id, updateFn, sync)
BatchedDelete(target, id) ==
  Tx(target, "delete", Undefined, id, NoUpdate, FALSE)
BatchedEntityUpdate(target, updateFn, sync) ==
  Tx(target, "update", Undefined, NoId, updateFn, sync)
BatchedEntityReplace(target, data, sync) ==
  Tx(target, "replace", data, NoId, NoUpdate, sync)

\* the transactions an optimistic callback pushes
TxChoices ==
  {BatchedPrepend("todos", NewItem, TRUE),
   BatchedAppend("todos", OtherItem, FALSE),
   BatchedUpdate("todos", "1", Bump, FALSE),
   BatchedDelete("todos", "1"),
   BatchedEntityUpdate("user", Bump, TRUE),
   BatchedEntityReplace("user", NewUser, FALSE)}

Batches == UNION {[1..n -> TxChoices] : n \in 0..MaxBatch}

\* the payload onMutate builds for one transaction
MutatePayload(tx, token) ==
  LET optimisticData ==
        IF Truthy(tx.data) THEN Stamp(tx.data, token) ELSE Undefined
  IN Payload(optimisticData, tx.id, tx.where,
             IF tx.update.kind # "none" THEN tx.update
             ELSE IF Truthy(optimisticData) THEN MergeWith(optimisticData)
             ELSE NoUpdate)

\* for (const tx of transactions) { ... rollbacks.push(...updateRollbacks) }
RECURSIVE MutateLoop(_, _, _, _, _)
MutateLoop(reg, c, rbs, txs, token) ==
  IF txs = <<>> THEN [cache |-> c, rollbacks |-> rbs]
  ELSE LET tx == Head(txs)
           r == applyUpdate(reg, c, tx.target, tx.action,
                            MutatePayload(tx, token))
       IN MutateLoop(reg, r.cache, rbs \o r.rollbacks, Tail(txs), token)

\* a sync-replace that merges the response into the speculative item
SyncPayloadMerging(token, data) ==
  Payload(Undefined, NoId, TokenIs(token), MergeWith(data))

\* the payload of the sync-replace pass
SyncPayload(token, data) ==
  Payload(Undefined, NoId, TokenIs(token), Const(data))

\* a sync condition that looks at the flag only
SyncsTxIgnoringData(tx, data) == tx.sync

\* tx.sync && data
SyncsTx(tx, data) == tx.sync /\ Truthy(data)

\* for (const tx of context.transactions) { if (tx.sync && data) ... }
RECURSIVE SuccessLoop(_, _, _, _, _)
SuccessLoop(reg, c, txs, token, data) ==
  IF txs = <<>> THEN [cache |-> c, steps |-> <<>>]
  ELSE LET tx == Head(txs)
           r == SuccessLoop(
                  reg,
                  IF SyncsTx(tx, data)
                    THEN applyUpdate(reg, c, tx.target, "update",
                                     SyncPayload(token, data)).cache
                    ELSE c,
                  Tail(txs), token, data)
       IN [cache |-> r.cache,
           steps |-> (IF SyncsTx(tx, data) THEN <<"sync">> ELSE <<>>) \o r.steps]

\* The handlers. Each yields the cache it leaves and the steps it executed in
\* order; the caller-supplied callback (options.onMutate / onSuccess /
\* onError) is a step.
OnMutateHandler(reg, c, txs, token) ==
  LET r == MutateLoop(reg, c, <<>>, txs, token)
  IN [cache |-> r.cache, rollbacks |-> r.rollbacks,
      steps |-> [i \in 1..Len(txs) |-> "apply"] \o <<"onMutate">>]

\* an onSuccess that also invokes the rollbacks of the context
OnSuccessHandlerThenRollback(reg, c, ctx, data) ==
  LET r == SuccessLoop(reg, c, ctx.transactions, ctx.optimisticId, data)
  IN [cache |-> RunRollbacks(r.cache, ctx.rollbacks),
      steps |-> r.steps \o [i \in 1..Len(ctx.rollbacks) |-> "restore"]
                  \o <<"onSuccess">>]

\* an onSuccess that marks the items left with the token as settled
MarkItem(item, token, st) ==
  IF TokenOf(item) = token THEN [item EXCEPT !.opt.status = st] ELSE item

MarkValue(value, token, st) ==
  IF ~value.loaded THEN value
  ELSE IF "items" \in DOMAIN value
    THEN [value EXCEPT !.items =
            [i \in 1..Len(value.items) |-> MarkItem(value.items[i], token, st)]]
  ELSE IF "pages" \in DOMAIN value
    THEN [value EXCEPT !.pages =
            [p \in 1..Len(value.pages) |->
               [i \in 1..Len(value.pages[p]) |->
                  MarkItem(value.pages[p][i], token, st)]]]
  ELSE [value EXCEPT !.value = MarkItem(value.value, token, st)]

OnSuccessHandlerMarkingSuccess(reg, c, ctx, data) ==
  LET r == SuccessLoop(reg, c, ctx.transactions, ctx.optimisticId, data)
  IN [cache |-> [s \in Slots |->
                   MarkValue(r.cache[s], ctx.optimisticId, "success")],
      steps |-> r.steps \o <<"onSuccess">>]

OnSuccessHandler(reg, c, ctx, data) ==
  LET r == SuccessLoop(reg, c, ctx.transactions, ctx.optimisticId, data)
  IN [cache |-> r.cache, steps |-> r.steps \o <<"onSuccess">>]

\* an onError that forwards the error before rolling back
OnErrorHandlerCallbackFirst(c, ctx) ==
  [cache |-> RunRollbacks(c, ctx.rollbacks),
   steps |-> <<"onError">> \o [i \in 1..Len(ctx.rollbacks) |-> "restore"]]

OnErrorHandler(c, ctx) ==
  [cache |-> RunRollbacks(c, ctx.rollbacks),
   steps |-> [i \in 1..Len(ctx.rollbacks) |-> "restore"] \o <<"onError">>]

\* the values mutationFn may resolve to
ServerItem == Item("srv", 1)
Responses == {Undefined, ServerItem}

NoContext == [rollbacks |-> <<>>, optimisticId |-> NoToken, transactions |-> <<>>]

\* no direct call has been made
NoCall == [name |-> "<none>", action |-> "<none>",
           payload |-> Payload(Undefined, NoId, NoWhere, NoUpdate)]

\* no applyUpdate loop is running
NoScan == [active |-> FALSE, name |-> "<none>", action |-> "<none>",
           payload |-> Payload(Undefined, NoId, NoWhere, NoUpdate),
           snap |-> <<>>, pos |-> 0, rollbacks |-> <<>>, opsAtStart |-> 0,
           opsAtEnd |-> 0]

\* onSuccess / onError run when the pending mutationFn settles
CanSettle(ph) == ph = "pending"

(***************************************************************************)
(* useQuery: the registration effect of each mounted instance. React runs  *)
(* the effect after a render whose dependencies changed, runs the cleanup  *)
(* of the previous run first, and runs the cleanup at unmount.             *)
(***************************************************************************)
\* number of times one instance's effect may run
MaxRuns == 2

\* the useQuery instances: a collection query and an entity query
Instances == {"q1", "q2"}

\* the entry object the n-th run of an instance's effect creates
EffectEntry(q, n) ==
  IF q = "q1" THEN <<"q1e1", "q1e2", "q1e3", "q1e4">>[n]
  ELSE <<"q2e1", "q2e2", "q2e3", "q2e4">>[n]

NoEntry == "<none>"
NoEffect == [installed |-> FALSE, status |-> "pending", data |-> 0,
             entry |-> NoEntry]

\* query.status, and query.data as a version number (0: undefined)
Statuses == {"pending", "success", "error"}
DataVersions == {0, 1, 2}

InitQueries ==
  [q \in Instances |->
     [mounted |-> FALSE, status |-> "pending", data |-> 0, runs |-> 0,
      effect |-> NoEffect]]

(***************************************************************************)
(* Initial state: no query is registered; the cache holds the fetched data *)
(* of the queries.                                                        *)
(***************************************************************************)
InitCache ==
  [s \in Slots |->
     CASE s \in {"k1", "k4"} -> Coll(<<Item("1", 0), Item("2", 1)>>)
       [] s = "k2" -> Pag(<<<<Item("1", 0)>>, <<Item("2", 1)>>>>, <<1, 2>>)
       [] OTHER -> Ent(Item("u", 0))]

Init ==
  /\ entries = NoEntries
  /\ cache = InitCache
  /\ held = <<>>
  /\ calls = 0
  /\ phase = [m \in Mutations |-> "idle"]
  /\ context = [m \in Mutations |-> NoContext]
  /\ response = [m \in Mutations |-> Undefined]
  /\ events = [m \in Mutations |-> <<>>]
  /\ unmounted = {}
  /\ snapshot = [m \in Mutations |-> InitCache]
  /\ lastCall = NoCall
  /\ ops = <<>>
  /\ scan = NoScan
  /\ queries = InitQueries

(***************************************************************************)
(* Actions                                                                 *)
(***************************************************************************)
\* useQuery's effect: registry.register(entry) once the query has data
Register(b) ==
  /\ cache[Slot(b)].loaded
  /\ b \notin unmounted
  /\ ~SeqContains(getByName(entries, Name(b)), b)
  /\ entries' = register(entries, b)
  /\ UNCHANGED <<queries, ops, scan, cache, held, calls, phase, context, response, events,
                 unmounted, snapshot, lastCall>>

\* the effect's cleanup: registry.unregister(entry)
Unregister(b) ==
  /\ SeqContains(getByName(entries, Name(b)), b)
  /\ entries' = unregister(entries, b)
  /\ unmounted' = unmounted \cup {b}
  /\ UNCHANGED <<queries, ops, scan, cache, held, calls, phase, context, response, events,
                 snapshot, lastCall>>

\* channel(target).<method>(...): the caller keeps the returned rollback
ChannelCall(method) ==
  /\ calls < MaxCalls
  /\ LET r == ChannelResult(method, entries, cache, ChannelToken("c1"))
     IN /\ cache' = r.cache
        /\ held' = Append(held, r.rollbacks)
  /\ calls' = calls + 1
  /\ UNCHANGED <<queries, ops, scan, entries, phase, context, response, events, unmounted,
                 snapshot, lastCall>>

\* the caller invokes a rollback function it kept
ChannelRollback(k) ==
  /\ k \in 1..Len(held)
  /\ cache' = RunRollbacks(cache, held[k])
  /\ UNCHANGED <<queries, ops, scan, entries, held, calls, phase, context, response, events,
                 unmounted, snapshot, lastCall>>

\* mutate(params): onMutate applies the batch and returns the context
OnMutate(m, txs) ==
  /\ phase[m] = "idle"
  /\ LET r == OnMutateHandler(entries, cache, txs, MutationToken(m))
     IN /\ cache' = r.cache
        /\ context' = [context EXCEPT ![m] =
                         [rollbacks |-> r.rollbacks,
                          optimisticId |-> MutationToken(m),
                          transactions |-> txs]]
        /\ events' = [events EXCEPT ![m] = @ \o r.steps]
  /\ phase' = [phase EXCEPT ![m] = "pending"]
  /\ snapshot' = [snapshot EXCEPT ![m] = cache]
  /\ UNCHANGED <<queries, ops, scan, entries, held, calls, response, unmounted, lastCall>>

\* mutationFn resolved with data: onSuccess
OnSuccess(m, data) ==
  /\ CanSettle(phase[m])
  /\ LET r == OnSuccessHandler(entries, cache, context[m], data)
     IN /\ cache' = r.cache
        /\ events' = [events EXCEPT ![m] = @ \o r.steps]
  /\ phase' = [phase EXCEPT ![m] =
                 IF \E i \in 1..Len(context[m].transactions) :
                       SyncsTx(context[m].transactions[i], data)
                   THEN "synced" ELSE "committed"]
  /\ response' = [response EXCEPT ![m] = data]
  /\ UNCHANGED <<queries, ops, scan, entries, held, calls, context, unmounted, snapshot,
                 lastCall>>

\* mutationFn rejected: onError
OnError(m) ==
  /\ CanSettle(phase[m])
  /\ LET r == OnErrorHandler(cache, context[m])
     IN /\ cache' = r.cache
        /\ events' = [events EXCEPT ![m] = @ \o r.steps]
  /\ phase' = [phase EXCEPT ![m] = "rolledback"]
  /\ UNCHANGED <<queries, ops, scan, entries, held, calls, context, response, unmounted, snapshot,
                 lastCall>>

\* the mutation lifecycle over a changing registry
Next ==
  \/ \E b \in Bindings : Register(b)
  \/ \E b \in Bindings : Unregister(b)
  \/ \E m \in Mutations, txs \in Batches : OnMutate(m, txs)
  \/ \E m \in Mutations, data \in Responses : OnSuccess(m, data)
  \/ \E m \in Mutations : OnError(m)

Spec == Init /\ [][Next]_vars

\* the standalone channel over a changing registry
NextChannel ==
  \/ \E b \in Bindings : Register(b)
  \/ \E b \in Bindings : Unregister(b)
  \/ \E method \in ChannelMethods : ChannelCall(method)
  \/ \E k \in 1..MaxCalls : ChannelRollback(k)

SpecChannel == Init /\ [][NextChannel]_vars

(***************************************************************************)
(* registry.applyUpdate called directly. The registry and the cache are    *)
(* drawn from the states a running application shows: any bindings         *)
(* registered in any order, and a cache slot either loaded or removed from *)
(* the store (queryClient.removeQueries) while its binding is still        *)
(* registered, so that getData returns undefined.                          *)
(***************************************************************************)
EngineRegistries ==
  {[n \in {x \in Names : (IF x = "todos" THEN t ELSE u) # <<>>} |->
      IF n = "todos" THEN t ELSE u] :
     t \in {<<>>, <<"b1", "b5">>, <<"b5", "b3", "b1">>, <<"b1", "b2", "b5">>},
     u \in {<<>>, <<"b4">>}}

\* the fetched collections: up to MaxLen items, items may repeat
EngineItems == {Item("1", 0), Item("2", 1), Item("3", 0)}
EngineCollections == UNION {[1..n -> EngineItems] : n \in 0..MaxLen}

\* either both collection queries fetched the same items, or any of the
\* four slots was removed
EngineCaches ==
  {[InitCache EXCEPT !["k1"] = Coll(xs), !["k4"] = Coll(xs)] :
     xs \in EngineCollections}
  \cup
  {[k1 |-> a, k2 |-> b, k3 |-> c, k4 |-> d] :
     a \in {InitCache["k1"], AbsentColl},
     b \in {InitCache["k2"], AbsentPag},
     c \in {InitCache["k3"], AbsentEnt},
     d \in {InitCache["k4"], AbsentColl}}

InitEngine ==
  /\ entries \in EngineRegistries
  /\ cache \in EngineCaches
  /\ held = <<>>
  /\ calls = 0
  /\ phase = [m \in Mutations |-> "idle"]
  /\ context = [m \in Mutations |-> NoContext]
  /\ response = [m \in Mutations |-> Undefined]
  /\ events = [m \in Mutations |-> <<>>]
  /\ unmounted = {}
  /\ snapshot = [m \in Mutations |-> InitCache]
  /\ lastCall = NoCall
  /\ ops = <<>>
  /\ scan = NoScan
  /\ queries = InitQueries

\* the arguments of a direct call; "upsert" is an action the switch of
\* applyCollectionUpdate has no case for
KnownActions == {"prepend", "append", "update", "delete", "replace"}
EngineActions == KnownActions \cup {"upsert"}

\* a partial item
PartialItem == [v |-> 1]

EnginePayloads ==
  {Payload(d, i, w, u) :
     d \in {Undefined, PartialItem, Stamp(NewItem, ChannelToken("c1"))},
     i \in {NoId, "", "2"},
     w \in {NoWhere, VIsZero},
     u \in {NoUpdate, Bump}}

\* registry.applyUpdate(name, action, payload), called once on the drawn
\* registry and cache; the caller keeps the rollbacks
Apply(name, action, payload) ==
  /\ lastCall = NoCall
  /\ LET r == applyUpdate(entries, cache, name, action, payload)
     IN /\ cache' = r.cache
        /\ held' = Append(held, r.rollbacks)
  /\ calls' = calls + 1
  /\ lastCall' = [name |-> name, action |-> action, payload |-> payload]
  /\ UNCHANGED <<queries, ops, scan, entries, phase, context, response, events, unmounted,
                 snapshot>>

NextEngine ==
  \E name \in Names, action \in EngineActions, payload \in EnginePayloads :
    Apply(name, action, payload)

SpecEngine == InitEngine /\ [][NextEngine]_vars

(***************************************************************************)
(* Channel instances. channel(target) constructs an instance, and a caller *)
(* may keep the instance and call several of its methods.                  *)
(***************************************************************************)
\* number of method calls made on channel instances
MaxUses == 2

\* the instances a caller holds
Channels == {"c1", "c2"}

ChannelCallOn(ch, method) ==
  /\ calls < MaxUses
  /\ LET r == ChannelResult(method, entries, cache, ChannelToken(ch))
     IN /\ cache' = r.cache
        /\ held' = Append(held, r.rollbacks)
  /\ calls' = calls + 1
  /\ UNCHANGED <<queries, ops, scan, entries, phase, context, response, events, unmounted,
                 snapshot, lastCall>>

NextInstances ==
  \/ \E ch \in Channels, method \in ChannelMethods : ChannelCallOn(ch, method)
  \/ \E k \in 1..MaxUses : ChannelRollback(k)

\* any registry over the fetched data of the queries
InitInstances ==
  /\ entries \in EngineRegistries
  /\ cache = InitCache
  /\ held = <<>>
  /\ calls = 0
  /\ phase = [m \in Mutations |-> "idle"]
  /\ context = [m \in Mutations |-> NoContext]
  /\ response = [m \in Mutations |-> Undefined]
  /\ events = [m \in Mutations |-> <<>>]
  /\ unmounted = {}
  /\ snapshot = [m \in Mutations |-> InitCache]
  /\ lastCall = NoCall
  /\ ops = <<>>
  /\ scan = NoScan
  /\ queries = InitQueries

SpecInstances == InitInstances /\ [][NextInstances]_vars

(***************************************************************************)
(* The registry called directly, and applyUpdate at the grain of its loop: *)
(* one step per entry, so that a register or unregister call a write       *)
(* triggers falls between two iterations.                                  *)
(***************************************************************************)
\* the bindings the direct calls pass
RegistryBindings == {"b1", "b2", "b5", "b4"}

RegisterCall(b) ==
  /\ Len(ops) < MaxOps
  /\ entries' = register(entries, b)
  /\ ops' = Append(ops, [op |-> "register", entry |-> b])
  /\ UNCHANGED <<cache, held, calls, phase, context, response, events,
                 unmounted, snapshot, lastCall, scan, queries>>

UnregisterCall(b) ==
  /\ Len(ops) < MaxOps
  /\ entries' = unregister(entries, b)
  /\ ops' = Append(ops, [op |-> "unregister", entry |-> b])
  /\ UNCHANGED <<cache, held, calls, phase, context, response, events,
                 unmounted, snapshot, lastCall, scan, queries>>

\* the instructions of the stepped call
ScanCalls ==
  {[name |-> "todos", action |-> "prepend",
    payload |-> Payload(Stamp(NewItem, ChannelToken("c1")), NoId, NoWhere,
                        NoUpdate)],
   [name |-> "todos", action |-> "update",
    payload |-> Payload(Undefined, "1", NoWhere, Bump)]}

\* a loop that reads the registry again at every iteration
ScanEntriesLive(snap, reg, name) == getByName(reg, name)

\* the array the loop iterates: const entries = this.getByName(name)
ScanEntries(snap, reg, name) == snap

\* a loop that takes the entries from the end
ScanNextFromEnd(es, pos) == es[Len(es) - pos]

\* for (const entry of entries): the entry of the next iteration
ScanNext(es, pos) == es[pos + 1]

\* const entries = this.getByName(name); const rollbacks = []
ScanStart(c) ==
  /\ ~scan.active
  /\ lastCall = NoCall
  /\ scan' = [active |-> TRUE, name |-> c.name, action |-> c.action,
              payload |-> c.payload, snap |-> getByName(entries, c.name),
              pos |-> 0, rollbacks |-> <<>>, opsAtStart |-> Len(ops),
              opsAtEnd |-> 0]
  /\ UNCHANGED <<entries, cache, held, calls, phase, context, response,
                 events, unmounted, snapshot, lastCall, ops, queries>>

\* one iteration: capture previous, push the rollback, setData
ScanStep ==
  /\ scan.active
  /\ scan.pos < Len(ScanEntries(scan.snap, entries, scan.name))
  /\ LET b == ScanNext(ScanEntries(scan.snap, entries, scan.name), scan.pos)
         previous == cache[Slot(b)]
     IN /\ cache' = setData(cache, b,
                            UpdaterResult(b, previous, scan.action,
                                          scan.payload))
        /\ scan' = [scan EXCEPT !.pos = @ + 1,
                                !.rollbacks = Append(@, Rollback(b, previous))]
  /\ UNCHANGED <<entries, held, calls, phase, context, response, events,
                 unmounted, snapshot, lastCall, ops, queries>>

\* return rollbacks
ScanEnd ==
  /\ scan.active
  /\ scan.pos >= Len(ScanEntries(scan.snap, entries, scan.name))
  /\ held' = Append(held, scan.rollbacks)
  /\ calls' = calls + 1
  /\ lastCall' = [name |-> scan.name, action |-> scan.action,
                  payload |-> scan.payload]
  /\ scan' = [scan EXCEPT !.active = FALSE, !.opsAtEnd = Len(ops)]
  /\ UNCHANGED <<entries, cache, phase, context, response, events, unmounted,
                 snapshot, ops, queries>>

NextRegistry ==
  \/ \E b \in RegistryBindings : RegisterCall(b)
  \/ \E b \in RegistryBindings : UnregisterCall(b)
  \/ \E c \in ScanCalls : ScanStart(c)
  \/ ScanStep
  \/ ScanEnd

SpecRegistry == Init /\ [][NextRegistry]_vars

(***************************************************************************)
(* The steps of the registration effect.                                   *)
(***************************************************************************)
\* the component mounts; the query has no result yet, or is served from
\* the cache
Mount(q, st, d) ==
  /\ ~queries[q].mounted
  /\ ~queries[q].effect.installed
  /\ queries[q].runs < MaxRuns
  /\ st = "pending" => d = 0
  /\ queries' = [queries EXCEPT ![q].mounted = TRUE, ![q].status = st,
                                ![q].data = d]
  /\ UNCHANGED <<entries, cache, held, calls, phase, context, response,
                 events, unmounted, snapshot, lastCall, ops, scan>>

\* a render with a new query.status / query.data
Render(q, st, d) ==
  /\ queries[q].mounted
  /\ queries[q].runs < MaxRuns
  /\ <<st, d>> # <<queries[q].status, queries[q].data>>
  /\ st = "pending" => d = 0
  /\ queries' = [queries EXCEPT ![q].status = st, ![q].data = d]
  /\ UNCHANGED <<entries, cache, held, calls, phase, context, response,
                 events, unmounted, snapshot, lastCall, ops, scan>>

\* a cleanup that unregisters the entry of the instance's first run
CleanupTargetFirstRun(q, eff) ==
  IF eff.entry = NoEntry THEN NoEntry ELSE EffectEntry(q, 1)

\* return () => registry.unregister(entry): the entry of the same run
CleanupTarget(q, eff) == eff.entry

\* the cleanup of the installed run: dependencies changed, or unmounted
EffectCleanup(q) ==
  /\ queries[q].effect.installed
  /\ \/ ~queries[q].mounted
     \/ <<queries[q].effect.status, queries[q].effect.data>>
          # <<queries[q].status, queries[q].data>>
  /\ entries' = IF CleanupTarget(q, queries[q].effect) = NoEntry THEN entries
                ELSE unregister(entries, CleanupTarget(q, queries[q].effect))
  /\ queries' = [queries EXCEPT ![q].effect = NoEffect]
  /\ UNCHANGED <<cache, held, calls, phase, context, response, events,
                 unmounted, snapshot, lastCall, ops, scan>>

\* if (query.status !== 'success' || !query.data) return
Registers(st, d) == st = "success" /\ d # 0

\* the effect body
EffectSetup(q) ==
  /\ queries[q].mounted
  /\ ~queries[q].effect.installed
  /\ queries[q].runs < MaxRuns
  /\ LET n == queries[q].runs + 1
         reg == Registers(queries[q].status, queries[q].data)
         entry == IF reg THEN EffectEntry(q, n) ELSE NoEntry
     IN /\ entries' = IF reg THEN register(entries, entry) ELSE entries
        /\ queries' = [queries EXCEPT
                         ![q].runs = n,
                         ![q].effect = [installed |-> TRUE,
                                        status |-> queries[q].status,
                                        data |-> queries[q].data,
                                        entry |-> entry]]
  /\ UNCHANGED <<cache, held, calls, phase, context, response, events,
                 unmounted, snapshot, lastCall, ops, scan>>

\* the component unmounts
Unmount(q) ==
  /\ queries[q].mounted
  /\ queries' = [queries EXCEPT ![q].mounted = FALSE]
  /\ UNCHANGED <<entries, cache, held, calls, phase, context, response,
                 events, unmounted, snapshot, lastCall, ops, scan>>

NextQuery ==
  \/ \E q \in Instances, st \in Statuses, d \in DataVersions : Mount(q, st, d)
  \/ \E q \in Instances, st \in Statuses, d \in DataVersions : Render(q, st, d)
  \/ \E q \in Instances : EffectCleanup(q)
  \/ \E q \in Instances : EffectSetup(q)
  \/ \E q \in Instances : Unmount(q)

SpecQuery == Init /\ [][NextQuery]_vars

(***************************************************************************)
(* Callbacks that throw. An exception raised by a caller's transform       *)
(* leaves the updater, setData, applyUpdate and onMutate in turn: the      *)
(* local rollbacks arrays are dropped and onMutate returns no context.     *)
(***************************************************************************)
\* payload.update(item) raises instead of returning
UpdateThrows(u, item) == u.kind = "throwIfV1" /\ item.v = 1

\* some item the updater transforms makes the transform throw
ItemsThrow(items, action, payload) ==
  /\ action = "update"
  /\ payload.update.kind # "none"
  /\ \E i \in 1..Len(items) :
       Matches(payload, items[i]) /\ UpdateThrows(payload.update, items[i])

\* entry.setData(updater) raises: the updater ran the transform on prev
UpdaterThrows(b, prev, action, payload) ==
  CASE Kind(b) = "collection" ->
         prev.loaded /\ ItemsThrow(prev.items, action, payload)
    [] Kind(b) = "paginated" ->
         /\ prev.loaded
         /\ prev.pages # <<>>
         /\ ItemsThrow(prev.pages[1], action, payload)
    [] OTHER ->
         /\ action = "update"
         /\ payload.update.kind # "none"
         /\ prev.loaded
         /\ UpdateThrows(payload.update, prev.value)

\* the loop of applyUpdate, left by the first exception
RECURSIVE ApplyLoopFaulting(_, _, _, _, _)
ApplyLoopFaulting(c, rbs, es, action, payload) ==
  IF es = <<>> THEN [cache |-> c, rollbacks |-> rbs, threw |-> FALSE]
  ELSE LET b == Head(es)
           previous == c[Slot(b)]
       IN IF UpdaterThrows(b, previous, action, payload)
            THEN [cache |-> c, rollbacks |-> <<>>, threw |-> TRUE]
          ELSE ApplyLoopFaulting(
                 setData(c, b, UpdaterResult(b, previous, action, payload)),
                 Append(rbs, Rollback(b, previous)), Tail(es), action, payload)

applyUpdateFaulting(reg, c, name, action, payload) ==
  ApplyLoopFaulting(c, <<>>, getByName(reg, name), action, payload)

\* the loop of onMutate, left by the first exception; applied counts the
\* applyUpdate calls that returned
RECURSIVE MutateLoopFaulting(_, _, _, _, _, _)
MutateLoopFaulting(reg, c, rbs, txs, token, applied) ==
  IF txs = <<>>
    THEN [cache |-> c, rollbacks |-> rbs, threw |-> FALSE, applied |-> applied]
  ELSE LET tx == Head(txs)
           r == applyUpdateFaulting(reg, c, tx.target, tx.action,
                                    MutatePayload(tx, token))
       IN IF r.threw
            THEN [cache |-> r.cache, rollbacks |-> <<>>, threw |-> TRUE,
                  applied |-> applied]
          ELSE MutateLoopFaulting(reg, r.cache, rbs \o r.rollbacks, Tail(txs),
                                  token, applied + 1)

\* a caller's transform that throws on an item it has already bumped:
\* (item) => { if (item.v === 1) throw ...; return {...item, v: item.v + 1} }
ThrowIfV1 == [kind |-> "throwIfV1", arg |-> Undefined]

\* the transactions an optimistic callback pushes, some with that transform
FaultTxChoices ==
  {BatchedPrepend("todos", NewItem, TRUE),
   BatchedUpdate("todos", "1", ThrowIfV1, FALSE),
   BatchedEntityUpdate("user", ThrowIfV1, FALSE),
   BatchedEntityReplace("user", NewUser, FALSE)}

FaultBatches == UNION {[1..n -> FaultTxChoices] : n \in 0..MaxBatch}

\* the queries mounted, and what they have fetched: the paginated query may
\* hold a newer version of item 1 than the plain one
FaultBindings == {"b1", "b3", "b4"}

FaultCaches ==
  {InitCache,
   [InitCache EXCEPT !["k2"] =
      Pag(<<<<Item("1", 1)>>, <<Item("2", 1)>>>>, <<1, 2>>)]}

InitFault ==
  /\ entries = NoEntries
  /\ cache \in FaultCaches
  /\ held = <<>>
  /\ calls = 0
  /\ phase = [m \in Mutations |-> "idle"]
  /\ context = [m \in Mutations |-> NoContext]
  /\ response = [m \in Mutations |-> Undefined]
  /\ events = [m \in Mutations |-> <<>>]
  /\ unmounted = {}
  /\ snapshot = [m \in Mutations |-> InitCache]
  /\ lastCall = NoCall
  /\ ops = <<>>
  /\ scan = NoScan
  /\ queries = InitQueries

\* onMutate whose batch runs to its end
OnMutateReturns(m, txs) ==
  /\ ~MutateLoopFaulting(entries, cache, <<>>, txs, MutationToken(m), 0).threw
  /\ OnMutate(m, txs)

\* onMutate left by an exception: no context is returned; the mutation
\* fails before mutationFn is called and onError receives no context
OnMutateThrows(m, txs) ==
  /\ phase[m] = "idle"
  /\ LET r == MutateLoopFaulting(entries, cache, <<>>, txs, MutationToken(m), 0)
     IN /\ r.threw
        /\ cache' = OnErrorHandler(r.cache, NoContext).cache
        /\ events' = [events EXCEPT ![m] =
                        @ \o [i \in 1..r.applied |-> "apply"] \o <<"throw">>
                          \o OnErrorHandler(r.cache, NoContext).steps]
  /\ phase' = [phase EXCEPT ![m] = "faulted"]
  /\ snapshot' = [snapshot EXCEPT ![m] = cache]
  /\ UNCHANGED <<entries, held, calls, context, response, unmounted, lastCall,
                 ops, scan, queries>>

NextFault ==
  \/ \E b \in FaultBindings : Register(b)
  \/ \E m \in Mutations, txs \in FaultBatches : OnMutateReturns(m, txs)
  \/ \E m \in Mutations, txs \in FaultBatches : OnMutateThrows(m, txs)
  \/ \E m \in Mutations, data \in Responses : OnSuccess(m, data)
  \/ \E m \in Mutations : OnError(m)

SpecFault == InitFault /\ [][NextFault]_vars

(***************************************************************************)
(* The mutation lifecycle with a remote call that settles: once mutationFn *)
(* is pending, its promise resolves or rejects and the matching handler    *)
(* runs.                                                                   *)
(***************************************************************************)
\* mutationFn settles: onSuccess or onError runs
Settle(m) == (\E data \in Responses : OnSuccess(m, data)) \/ OnError(m)

SpecFaultLive == SpecFault /\ \A m \in Mutations : WF_vars(Settle(m))

(***************************************************************************)
(* Vocabulary of the properties                                            *)
(***************************************************************************)
RECURSIVE Flatten(_)
Flatten(pages) == IF pages = <<>> THEN <<>> ELSE Head(pages) \o Flatten(Tail(pages))

\* every item a stored value holds, in order
ItemsIn(value) ==
  IF ~value.loaded THEN <<>>
  ELSE IF "items" \in DOMAIN value THEN value.items
  ELSE IF "pages" \in DOMAIN value THEN Flatten(value.pages)
  ELSE <<value.value>>

CarriesToken(value, token) ==
  \E p \in 1..Len(ItemsIn(value)) : TokenOf(ItemsIn(value)[p]) = token

Count(seq, x) == Cardinality({i \in 1..Len(seq) : seq[i] = x})

Transactions(m) == context[m].transactions
Rollbacks(m) == context[m].rollbacks

\* the slots a rollback set writes
SlotsOf(rbs) == {Slot(rbs[i].entry) : i \in 1..Len(rbs)}

\* the slots of the bindings registered under a name
SlotsUnder(reg, name) ==
  {Slot(getByName(reg, name)[i]) : i \in 1..Len(getByName(reg, name))}

(***************************************************************************)
(* C1. After a failed mutate, every binding the batch wrote holds the      *)
(* value it held before the first entry of the batch was applied.          *)
(***************************************************************************)
C1_FailedBatchRestoresPreBatchValues ==
  [][\A m \in Mutations :
       OnError(m) =>
         \A s \in SlotsOf(Rollbacks(m)) : cache'[s] = snapshot[m][s]]_vars

(***************************************************************************)
(* C2. The rollback function a standalone channel method returns, invoked  *)
(* right after the call, restores every binding that was registered under  *)
(* the target name to its value before the call.                           *)
(***************************************************************************)
C2_ChannelRollbackRestores ==
  [][\A method \in ChannelMethods :
       ChannelCall(method) =>
         LET rbs == held'[Len(held')]
         IN \A s \in SlotsOf(rbs) : RunRollbacks(cache', rbs)[s] = cache[s]]_vars

(***************************************************************************)
(* C3. A mutate invocation takes exactly one terminal step, once: after a  *)
(* failure every rollback ran and no sync pass did; after a success no     *)
(* rollback ran, and sync passes ran (synced) or nothing was written       *)
(* (committed). onMutate never runs a second time.                         *)
(***************************************************************************)
C3_ExactlyOneTerminalOutcome ==
  \A m \in Mutations :
    LET ev == events[m]
        terminals == Count(ev, "onSuccess") + Count(ev, "onError")
    IN /\ Count(ev, "onMutate") <= 1
       /\ terminals <= 1
       /\ phase[m] = "idle" => ev = <<>>
       /\ phase[m] # "idle" =>
            Count(ev, "onMutate") = 1 /\ Count(ev, "apply") = Len(Transactions(m))
       /\ phase[m] = "pending" =>
            terminals = 0 /\ Count(ev, "restore") = 0 /\ Count(ev, "sync") = 0
       /\ phase[m] = "rolledback" =>
            /\ Count(ev, "onError") = 1
            /\ Count(ev, "restore") = Len(Rollbacks(m))
            /\ Count(ev, "sync") = 0
       /\ phase[m] = "synced" =>
            /\ Count(ev, "onSuccess") = 1
            /\ Count(ev, "restore") = 0
            /\ Count(ev, "sync") >= 1
       /\ phase[m] = "committed" =>
            /\ Count(ev, "onSuccess") = 1
            /\ Count(ev, "restore") = 0
            /\ Count(ev, "sync") = 0

C3_Witness ==
  \E m \in Mutations : phase[m] = "synced" /\ Len(Rollbacks(m)) > 0

(***************************************************************************)
(* C4. After the sync-replace pass of a Prepend / Append entry marked sync *)
(* with a response R, every binding registered under the collection holds  *)
(* R where the speculative item was and no item with the change's token.   *)
(***************************************************************************)
C4_SyncReplacePutsResponseInPlace ==
  [][\A m \in Mutations, data \in Responses :
       (OnSuccess(m, data) /\ Truthy(data)) =>
         \A i \in 1..Len(Transactions(m)) :
           LET tx == Transactions(m)[i]
           IN (tx.sync /\ tx.action \in {"prepend", "append"}) =>
                \A s \in SlotsUnder(entries, tx.target) :
                  LET pre == ItemsIn(cache[s])
                      post == ItemsIn(cache'[s])
                  IN /\ Len(post) = Len(pre)
                     /\ \A p \in 1..Len(pre) :
                          pre[p] = Stamp(tx.data, context[m].optimisticId)
                            => post[p] = data
                     /\ ~CarriesToken(cache'[s], context[m].optimisticId)]_vars

C4_Witness ==
  \E m \in Mutations :
    /\ phase[m] = "synced"
    /\ \E i \in 1..Len(Transactions(m)) :
         Transactions(m)[i].sync /\ Transactions(m)[i].action = "prepend"
    /\ \E s \in SlotsUnder(entries, "todos") :
         /\ Len(ItemsIn(cache[s])) > Len(ItemsIn(snapshot[m][s]))
         /\ ItemsIn(cache[s])[1] = response[m]
         /\ response[m] = ServerItem

(***************************************************************************)
(* C5. The sync-replace pass changes only values that carry the change's   *)
(* token: in every binding registered under a synced target name, an item  *)
(* or entity value without the token is unchanged by the pass.             *)
(***************************************************************************)
C5_SyncTouchesOnlyTokenCarriers ==
  [][\A m \in Mutations, data \in Responses :
       OnSuccess(m, data) =>
         \A i \in 1..Len(Transactions(m)) :
           SyncsTx(Transactions(m)[i], data) =>
             \A s \in SlotsUnder(entries, Transactions(m)[i].target) :
               LET pre == ItemsIn(cache[s])
                   post == ItemsIn(cache'[s])
               IN \A p \in 1..Len(pre) :
                    TokenOf(pre[p]) # context[m].optimisticId
                      => (p <= Len(post) /\ post[p] = pre[p])]_vars

(***************************************************************************)
(* C6. On success, the items produced by an entry that is not marked sync  *)
(* stay exactly as the speculative apply produced them.                    *)
(***************************************************************************)
C6_NonSyncEntriesLeftAsApplied ==
  [][\A m \in Mutations, data \in Responses :
       OnSuccess(m, data) =>
         \A i \in 1..Len(Transactions(m)) :
           LET tx == Transactions(m)[i]
           IN (~tx.sync /\ Truthy(tx.data)) =>
                \A s \in Slots :
                  LET pre == ItemsIn(cache[s])
                      post == ItemsIn(cache'[s])
                  IN \A p \in 1..Len(pre) :
                       pre[p] = Stamp(tx.data, context[m].optimisticId)
                         => (p <= Len(post) /\ post[p] = pre[p])]_vars

(***************************************************************************)
(* C7. On failure every restore action of the composite rollback has run   *)
(* before the caller's onError callback runs.                              *)
(***************************************************************************)
C7_RollbackBeforeOnError ==
  \A m \in Mutations :
    phase[m] = "rolledback" =>
      LET ev == events[m]
      IN /\ Count(ev, "restore") = Len(Rollbacks(m))
         /\ \E k \in 1..Len(ev) :
              /\ ev[k] = "onError"
              /\ \A r \in 1..Len(ev) : ev[r] = "restore" => r < k

C7_Witness ==
  \E m \in Mutations : phase[m] = "rolledback" /\ Len(Rollbacks(m)) >= 2

(***************************************************************************)
(* C8. After the failure handling of a change whose batch holds only       *)
(* Prepend / Append / Replace entries, no item in any binding carries the  *)
(* change's token.                                                         *)
(***************************************************************************)
C8_NoTokenAfterFailure ==
  [][\A m \in Mutations :
       (/\ OnError(m)
        /\ \A i \in 1..Len(Transactions(m)) :
             Transactions(m)[i].action \in {"prepend", "append", "replace"}) =>
         \A s \in Slots : ~CarriesToken(cache'[s], context[m].optimisticId)]_vars

(***************************************************************************)
(* C9. Invoking a rollback set a second time changes nothing: the cache    *)
(* after two invocations equals the cache after one.                       *)
(***************************************************************************)
RollbackSets ==
  {Rollbacks(m) : m \in Mutations} \cup {held[k] : k \in 1..Len(held)}

C9_RollbackIdempotent ==
  \A rbs \in RollbackSets :
    RunRollbacks(RunRollbacks(cache, rbs), rbs) = RunRollbacks(cache, rbs)

C9_Witness ==
  \E m \in Mutations :
    /\ phase[m] = "rolledback"
    /\ Len(Rollbacks(m)) >= 2
    /\ \E i \in 1..Len(Rollbacks(m)) :
         Rollbacks(m)[i].previous # cache[Slot(Rollbacks(m)[i].entry)]
    /\ RunRollbacks(cache, Rollbacks(m)) = cache

(***************************************************************************)
(* C10. When several bindings under one name share a cache slot, one       *)
(* standalone call changes the slot as if the instruction had been applied *)
(* once, and the returned rollbacks restore the slot's value before the    *)
(* call.                                                                   *)
(***************************************************************************)
RECURSIVE FirstPerSlot(_, _)
FirstPerSlot(es, seen) ==
  IF es = <<>> THEN <<>>
  ELSE IF Slot(Head(es)) \in seen THEN FirstPerSlot(Tail(es), seen)
  ELSE <<Head(es)>> \o FirstPerSlot(Tail(es), seen \cup {Slot(Head(es))})

\* the registry with one binding per cache slot
OnePerSlot(reg) == [n \in DOMAIN reg |-> FirstPerSlot(reg[n], {})]

SharedSlots(reg) ==
  {s \in Slots : \E n \in DOMAIN reg : \E i, j \in 1..Len(reg[n]) :
                    i # j /\ Slot(reg[n][i]) = s /\ Slot(reg[n][j]) = s}

C10_SharedSlotAppliedOnce ==
  [][\A method \in ChannelMethods :
       ChannelCall(method) =>
         LET rbs == held'[Len(held')]
             once == ChannelResult(method, OnePerSlot(entries), cache,
                                   ChannelToken("c1")).cache
         IN \A s \in SharedSlots(entries) :
              /\ cache'[s] = once[s]
              /\ RunRollbacks(cache', rbs)[s] = cache[s]]_vars

(***************************************************************************)
(* Vocabulary of the direct calls                                          *)
(***************************************************************************)
\* the restore actions of a rollback set that were captured for binding b
RestoresOf(rbs, b) == {r \in 1..Len(rbs) : rbs[r].entry = b}

\* the value the r-th write of a call stored: the next write to the same
\* slot captured it as its previous, and the last one left it in the cache
Outcome(rbs, after, r) ==
  LET later == {q \in (r + 1)..Len(rbs) :
                  Slot(rbs[q].entry) = Slot(rbs[r].entry)}
  IN IF later = {} THEN after[Slot(rbs[r].entry)]
     ELSE rbs[CHOOSE q \in later : \A q2 \in later : q <= q2].previous

\* the step is the direct call whose arguments lastCall records
Applied ==
  /\ lastCall' # lastCall
  /\ Apply(lastCall'.name, lastCall'.action, lastCall'.payload)

(***************************************************************************)
(* C11. Two bindings registered under one name with distinct cache slots   *)
(* and equal values are both written by one applyUpdate call and hold      *)
(* equal values after it, whatever the action.                             *)
(***************************************************************************)
C11_EqualBindingsStayEqual ==
  [][Applied =>
         LET rbs == held'[Len(held')]
             name == lastCall'.name
         IN \A i, j \in 1..Len(getByName(entries, name)) :
              LET b == getByName(entries, name)[i]
                  other == getByName(entries, name)[j]
              IN (Slot(b) # Slot(other) /\ cache[Slot(b)] = cache[Slot(other)])
                   => /\ RestoresOf(rbs, b) # {}
                      /\ RestoresOf(rbs, other) # {}
                      /\ cache'[Slot(b)] = cache'[Slot(other)]]_vars

(***************************************************************************)
(* C12. applyUpdate for a name without registered bindings returns an      *)
(* empty rollback set and changes no stored value.                         *)
(***************************************************************************)
C12_NoBindingsNoEffect ==
  [][(Applied /\ lastCall'.name \notin DOMAIN entries) =>
         /\ held'[Len(held')] = <<>>
         /\ cache' = cache]_vars

C12_Witness ==
  /\ lastCall.name = "user"
  /\ lastCall.action = "append"
  /\ Truthy(lastCall.payload.data)
  /\ DOMAIN entries = {"todos"}
  /\ held = << <<>> >>
  /\ cache = InitCache

(***************************************************************************)
(* C13. A registered binding whose getData is undefined when applyUpdate   *)
(* runs is still undefined after the call, and the rollback set holds one  *)
(* restore action for it which, invoked right after the call, leaves it    *)
(* undefined; for every kind of binding and every action.                  *)
(***************************************************************************)
C13_AbsentStaysAbsent ==
  [][Applied =>
         LET rbs == held'[Len(held')]
             name == lastCall'.name
         IN \A i \in 1..Len(getByName(entries, name)) :
              LET b == getByName(entries, name)[i]
              IN ~cache[Slot(b)].loaded =>
                   /\ ~cache'[Slot(b)].loaded
                   /\ Cardinality(RestoresOf(rbs, b)) = 1
                   /\ \A r \in RestoresOf(rbs, b) :
                        ~Restore(cache', rbs[r])[Slot(b)].loaded]_vars

(***************************************************************************)
(* C14. The items one logical change produces carry one token, and no item *)
(* produced by an earlier change carries that token; each call of a        *)
(* channel method is one logical change.                                   *)
(***************************************************************************)
\* the positions of the items a step placed in a slot
Produced(pre, post) ==
  {p \in 1..Len(post) : Count(post, post[p]) > Count(pre, post[p])}

C14_TokenPerLogicalChange ==
  [][\A ch \in Channels, method \in ChannelMethods :
       (ChannelCallOn(ch, method) /\ method \in {"prepend", "append"}) =>
         \A s \in Slots :
           LET pre == ItemsIn(cache[s])
               post == ItemsIn(cache'[s])
           IN \A p \in Produced(pre, post) :
                TokenOf(post[p]) # NoToken =>
                  /\ TokenOf(post[p]) = ChannelToken(ch)
                  /\ \A other \in Slots :
                       ~CarriesToken(cache[other], TokenOf(post[p]))]_vars

(***************************************************************************)
(* C15. Right after a standalone call, every item a prepend, append or     *)
(* replace placed in a binding carries the marker {token, pending}, and an *)
(* update or delete adds no marker.                                        *)
(***************************************************************************)
Marker(token) == [id |-> token, status |-> "pending"]

TokensIn(items) == {TokenOf(items[p]) : p \in 1..Len(items)}

C15_NewItemsCarryMarker ==
  [][\A method \in ChannelMethods :
       ChannelCall(method) =>
         \A s \in Slots :
           LET pre == ItemsIn(cache[s])
               post == ItemsIn(cache'[s])
           IN IF method \in {"prepend", "append", "entityReplace"}
                THEN \A p \in Produced(pre, post) :
                       /\ "opt" \in DOMAIN post[p]
                       /\ post[p].opt = Marker(ChannelToken("c1"))
                ELSE TokensIn(post) \subseteq TokensIn(pre) \cup {NoToken}]_vars

(***************************************************************************)
(* C16. On success with an undefined response no sync-replace write is     *)
(* made: every binding keeps the value the speculative apply produced,     *)
(* also for entries marked sync.                                           *)
(***************************************************************************)
C16_UndefinedResponseSkipsSync ==
  [][\A m \in Mutations :
       OnSuccess(m, Undefined) =>
         /\ cache' = cache
         /\ Count(events'[m], "sync") = 0]_vars

C16_Witness ==
  \E m \in Mutations :
    /\ phase[m] = "committed"
    /\ response[m] = Undefined
    /\ \E i \in 1..Len(Transactions(m)) :
         Transactions(m)[i].sync /\ Transactions(m)[i].action = "prepend"
    /\ \E i \in 1..Len(Transactions(m)) :
         Transactions(m)[i].sync /\ Transactions(m)[i].action = "update"
    /\ "user" \in DOMAIN entries
    /\ \E s \in SlotsUnder(entries, "todos") :
         CarriesToken(cache[s], context[m].optimisticId)

(***************************************************************************)
(* Vocabulary of the engine's results: the writes of a direct call. Write  *)
(* r of the call read rbs[r].previous and stored Outcome(rbs, cache', r).  *)
(***************************************************************************)
\* the writes a call made to loaded bindings of a kind
WritesTo(rbs, kind) ==
  {r \in 1..Len(rbs) : Kind(rbs[r].entry) = kind /\ rbs[r].previous.loaded}

\* a is b with some elements left out
RECURSIVE IsSubseq(_, _)
IsSubseq(a, b) ==
  IF a = <<>> THEN TRUE
  ELSE IF b = <<>> THEN FALSE
  ELSE IF Head(a) = Head(b) THEN IsSubseq(Tail(a), Tail(b))
  ELSE IsSubseq(a, Tail(b))

(***************************************************************************)
(* C17. An update on a collection with both an id and a predicate changes  *)
(* exactly the items whose id equals the given id; an item matched only by *)
(* the predicate is unchanged.                                             *)
(***************************************************************************)
C17_IdTakesPrecedence ==
  [][(/\ Applied
      /\ lastCall'.action = "update"
      /\ lastCall'.payload.id # NoId
      /\ lastCall'.payload.where # NoWhere) =>
         LET rbs == held'[Len(held')]
             payload == lastCall'.payload
         IN \A r \in WritesTo(rbs, "collection") :
              LET in == rbs[r].previous.items
                  out == Outcome(rbs, cache', r).items
              IN /\ Len(out) = Len(in)
                 /\ \A p \in 1..Len(in) :
                      IF GetId(in[p]) = payload.id
                        THEN payload.update # NoUpdate =>
                               out[p] = EvalUpdate(payload.update, in[p])
                        ELSE out[p] = in[p]]_vars

(***************************************************************************)
(* C18. Update, delete and replace on a collection keep the surviving      *)
(* items in their input order; update and replace keep every item at its   *)
(* index.                                                                  *)
(***************************************************************************)
C18_OrderPreserved ==
  [][(Applied /\ lastCall'.action \in {"update", "delete", "replace"}) =>
         LET rbs == held'[Len(held')]
             payload == lastCall'.payload
         IN \A r \in WritesTo(rbs, "collection") :
              LET in == rbs[r].previous.items
                  out == Outcome(rbs, cache', r).items
              IN IF lastCall'.action = "delete"
                   THEN IsSubseq(out, in)
                   ELSE /\ Len(out) = Len(in)
                        /\ \A p \in 1..Len(in) :
                             \/ out[p] = in[p]
                             \/ out[p] = EvalUpdate(payload.update, in[p])
                             \/ /\ Truthy(payload.data)
                                /\ out[p] \in {payload.data,
                                                Merge(in[p], payload.data)}]_vars

C18_Witness ==
  /\ lastCall.name = "todos"
  /\ lastCall.action = "delete"
  /\ lastCall.payload.id = "2"
  /\ getByName(entries, "todos") = <<"b1", "b5">>
  /\ held[1][1].previous = Coll(<<Item("1", 0), Item("2", 1), Item("3", 0)>>)
  /\ cache["k1"] = Coll(<<Item("1", 0), Item("3", 0)>>)

(***************************************************************************)
(* C19. applyUpdate on a loaded paginated binding changes page index 0     *)
(* only: the other pages and pageParams are as before, and page 0 is the   *)
(* engine's result on the old page 0; for every action.                    *)
(***************************************************************************)
C19_OnlyFirstPage ==
  [][Applied =>
         LET rbs == held'[Len(held')]
         IN \A r \in WritesTo(rbs, "paginated") :
              LET in == rbs[r].previous
                  out == Outcome(rbs, cache', r)
              IN /\ out.loaded
                 /\ out.pageParams = in.pageParams
                 /\ Len(out.pages) = Len(in.pages)
                 /\ \A i \in 2..Len(in.pages) : out.pages[i] = in.pages[i]
                 /\ out.pages[1] =
                      applyCollectionUpdate(in.pages[1], lastCall'.action,
                                            lastCall'.payload)]_vars

C19_Witness ==
  /\ lastCall.name = "todos"
  /\ lastCall.action = "update"
  /\ lastCall.payload.where = VIsZero
  /\ lastCall.payload.id = NoId
  /\ lastCall.payload.update = Bump
  /\ \E r \in 1..Len(held[1]) :
       held[1][r] = Rollback("b3", InitCache["k2"])
  /\ cache["k2"].pages[1] # InitCache["k2"].pages[1]
  /\ cache["k2"].pages[2] = InitCache["k2"].pages[2]
  /\ cache["k2"].pageParams = InitCache["k2"].pageParams

(***************************************************************************)
(* C20. On a loaded collection, prepend with an item returns the item      *)
(* followed by the current items in order, append returns the current      *)
(* items in order followed by the item, and either without an item returns *)
(* the collection unchanged.                                               *)
(***************************************************************************)
C20_PrependAppend ==
  [][(Applied /\ lastCall'.action \in {"prepend", "append"}) =>
         LET rbs == held'[Len(held')]
             data == lastCall'.payload.data
         IN \A r \in WritesTo(rbs, "collection") :
              LET in == rbs[r].previous.items
                  out == Outcome(rbs, cache', r).items
              IN IF ~Truthy(data) THEN out = in
                 ELSE /\ Len(out) = Len(in) + 1
                      /\ IF lastCall'.action = "prepend"
                           THEN /\ out[1] = data
                                /\ \A p \in 1..Len(in) : out[p + 1] = in[p]
                           ELSE /\ out[Len(out)] = data
                                /\ \A p \in 1..Len(in) : out[p] = in[p]]_vars

C20_Witness ==
  /\ lastCall.name = "todos"
  /\ lastCall.action = "prepend"
  /\ Truthy(lastCall.payload.data)
  /\ getByName(entries, "todos") = <<"b1", "b5">>
  /\ Len(held[1][1].previous.items) >= 2
  /\ cache["k1"].items = <<lastCall.payload.data>> \o held[1][1].previous.items

StatedMatch(payload, e) ==
  IF payload.id # NoId THEN GetId(e) = payload.id
  ELSE EvalWhere(payload.where, e)

(***************************************************************************)
(* C22. A collection delete removes every item whose id equals the given   *)
(* id when an id is given, otherwise every item the predicate holds for,   *)
(* and keeps every other item, in order.                                   *)
(***************************************************************************)
C22_DeleteRemovesAllMatches ==
  [][(Applied /\ lastCall'.action = "delete") =>
         LET rbs == held'[Len(held')]
             payload == lastCall'.payload
         IN \A r \in WritesTo(rbs, "collection") :
              LET in == rbs[r].previous.items
                  out == Outcome(rbs, cache', r).items
              IN out = SelectSeq(in, LAMBDA e : ~StatedMatch(payload, e))]_vars

(***************************************************************************)
(* C23. A collection replace puts the full item in the place of every      *)
(* matching item (matched by id when an id is given, otherwise by the      *)
(* predicate) and leaves every other item unchanged.                       *)
(***************************************************************************)
C23_ReplaceSubstitutesInPlace ==
  [][(Applied /\ lastCall'.action = "replace"
        /\ Truthy(lastCall'.payload.data)) =>
         LET rbs == held'[Len(held')]
             payload == lastCall'.payload
         IN \A r \in WritesTo(rbs, "collection") :
              LET in == rbs[r].previous.items
                  out == Outcome(rbs, cache', r).items
              IN /\ Len(out) = Len(in)
                 /\ \A p \in 1..Len(in) :
                      out[p] = IF StatedMatch(payload, in[p])
                                 THEN payload.data ELSE in[p]]_vars

(***************************************************************************)
(* C24. An update, delete or replace with neither id nor predicate matches *)
(* nothing, and an unknown action does nothing: the collection keeps every *)
(* item unchanged.                                                         *)
(***************************************************************************)
C24_NoSelectorNoChange ==
  [][(/\ Applied
      /\ \/ /\ lastCall'.action \in {"update", "delete", "replace"}
            /\ lastCall'.payload.id = NoId
            /\ lastCall'.payload.where = NoWhere
         \/ lastCall'.action \notin KnownActions) =>
         LET rbs == held'[Len(held')]
         IN \A r \in WritesTo(rbs, "collection") :
              Outcome(rbs, cache', r) = rbs[r].previous]_vars

C24_Witness ==
  /\ lastCall.name = "todos"
  /\ lastCall.action = "update"
  /\ lastCall.payload = Payload(PartialItem, NoId, NoWhere, Bump)
  /\ getByName(entries, "todos") = <<"b1", "b5">>
  /\ Len(held[1][1].previous.items) = MaxLen
  /\ cache["k1"] = held[1][1].previous
  /\ cache["k4"] = held[1][2].previous

(***************************************************************************)
(* C25. applyUpdate on a loaded entity binding: update sets the value to   *)
(* transform(value) when a transform is given, otherwise to the merge of   *)
(* the value and the partial item when an item is given; replace sets the  *)
(* value to the item.                                                      *)
(***************************************************************************)
C25_EntityUpdateAndReplace ==
  [][(Applied /\ lastCall'.action \in {"update", "replace"}) =>
         LET rbs == held'[Len(held')]
             payload == lastCall'.payload
         IN \A r \in WritesTo(rbs, "entity") :
              LET value == rbs[r].previous.value
                  out == Outcome(rbs, cache', r).value
              IN out =
                   IF lastCall'.action = "update"
                     THEN IF payload.update # NoUpdate
                            THEN EvalUpdate(payload.update, value)
                          ELSE IF Truthy(payload.data)
                            THEN Merge(value, payload.data)
                          ELSE value
                     ELSE IF Truthy(payload.data) THEN payload.data
                          ELSE value]_vars

(***************************************************************************)
(* Vocabulary of the registry properties: what a history of register and   *)
(* unregister calls leaves registered, read off the calls themselves.      *)
(***************************************************************************)
\* the position in the history of the call that registered b, 0 when the
\* history leaves b unregistered
RegisteredAt(h, b) ==
  LET un == {i \in 1..Len(h) : h[i] = [op |-> "unregister", entry |-> b]}
      lastUn == IF un = {} THEN 0 ELSE CHOOSE i \in un : \A j \in un : j <= i
      regs == {i \in (lastUn + 1)..Len(h) :
                 h[i] = [op |-> "register", entry |-> b]}
  IN IF regs = {} THEN 0 ELSE CHOOSE i \in regs : \A j \in regs : i <= j

\* the bindings a history leaves registered under a name
RegisteredUnder(h, name) ==
  {b \in RegistryBindings : Name(b) = name /\ RegisteredAt(h, b) # 0}

\* the register and unregister calls made before the stepped call started
OpsBefore(sc) == SubSeq(ops, 1, sc.opsAtStart)

\* the stepped call has returned
ScanReturned == ~scan.active /\ lastCall # NoCall

(***************************************************************************)
(* C26. However many times a binding was registered, an applyUpdate on its *)
(* name returns exactly one restore action for it (one write), and one     *)
(* unregister leaves no trace of it under its name.                        *)
(***************************************************************************)
C26_RegisterIdempotent ==
  [][/\ ScanEnd =>
          \A b \in RegisteredUnder(OpsBefore(scan), scan.name) :
            Cardinality(RestoresOf(held'[Len(held')], b)) = 1
     /\ \A b \in RegistryBindings :
          UnregisterCall(b) => ~SeqContains(getByName(entries', Name(b)), b)]_vars

C26_Witness ==
  /\ ScanReturned
  /\ \E b \in RegisteredUnder(OpsBefore(scan), scan.name) :
       /\ Count(OpsBefore(scan), [op |-> "register", entry |-> b]) >= 2
       /\ Count(OpsBefore(scan), [op |-> "unregister", entry |-> b]) = 0
       /\ Cardinality(RestoresOf(held[Len(held)], b)) = 1
       /\ ops[Len(ops)] = [op |-> "unregister", entry |-> b]
       /\ Len(ops) > scan.opsAtEnd

(***************************************************************************)
(* C27. The registry never keeps a name with an empty set of bindings, and *)
(* unregistering a binding that is not registered leaves it as it was.     *)
(***************************************************************************)
C27_NoEmptyBuckets ==
  [][/\ \A n \in DOMAIN entries' : entries'[n] # <<>>
     /\ \A b \in RegistryBindings :
          (UnregisterCall(b) /\ RegisteredAt(ops, b) = 0) =>
            entries' = entries]_vars

C27_Witness ==
  /\ \E i \in 1..Len(ops) :
       /\ ops[i].op = "unregister"
       /\ RegisteredAt(SubSeq(ops, 1, i - 1), ops[i].entry) # 0
       /\ RegisteredUnder(SubSeq(ops, 1, i), Name(ops[i].entry)) = {}
       /\ Name(ops[i].entry) \notin DOMAIN entries
  /\ \E i \in 1..Len(ops) :
       /\ ops[i].op = "unregister"
       /\ RegisteredAt(SubSeq(ops, 1, i - 1), ops[i].entry) = 0

(***************************************************************************)
(* C28. The entries getByName returned are a snapshot: a register or       *)
(* unregister call made during the scan leaves them as they were, and the  *)
(* call visits exactly the bindings registered when it started.            *)
(***************************************************************************)
C28_ScanOverSnapshot ==
  [][/\ \A b \in RegistryBindings :
          ((RegisterCall(b) \/ UnregisterCall(b)) /\ scan.active) =>
            ScanEntries(scan'.snap, entries', scan'.name)
              = ScanEntries(scan.snap, entries, scan.name)
     /\ ScanEnd =>
          {held'[Len(held')][r].entry : r \in 1..Len(held'[Len(held')])}
            = RegisteredUnder(OpsBefore(scan), scan.name)]_vars

C28_Witness ==
  /\ ScanReturned
  /\ scan.opsAtEnd > scan.opsAtStart
  /\ held[Len(held)] # <<>>
  /\ RegisteredUnder(SubSeq(ops, 1, scan.opsAtEnd), scan.name)
       # RegisteredUnder(OpsBefore(scan), scan.name)

(***************************************************************************)
(* C29. applyUpdate writes the bindings of the name in the order of their  *)
(* registration, all before it returns; the rollback set it returns has    *)
(* one restore action per registered binding, in that order.               *)
(***************************************************************************)
C29_RegistrationOrder ==
  [][ScanEnd =>
       LET rbs == held'[Len(held')]
           h == OpsBefore(scan)
       IN /\ \A b \in RegisteredUnder(h, scan.name) :
               Cardinality(RestoresOf(rbs, b)) = 1
          /\ Len(rbs) = Cardinality(RegisteredUnder(h, scan.name))
          /\ \A i, j \in 1..Len(rbs) :
               i < j => RegisteredAt(h, rbs[i].entry)
                          < RegisteredAt(h, rbs[j].entry)
          /\ cache' = cache
          /\ \A r \in 1..Len(rbs) :
               Outcome(rbs, cache', r)
                 = UpdaterResult(rbs[r].entry, rbs[r].previous, scan.action,
                                 scan.payload)]_vars

C29_Witness ==
  /\ ScanReturned
  /\ Len(held[Len(held)]) >= 2
  /\ \E i, j \in 1..Len(ops) :
       /\ i < j
       /\ ops[i].op = "register" /\ ops[j].op = "register"
       /\ held[Len(held)][1].entry = ops[i].entry
       /\ held[Len(held)][2].entry = ops[j].entry
       /\ ops[i].entry = "b5" /\ ops[j].entry = "b1"

(***************************************************************************)
(* C30. Of two changes A then B applied to the same bindings, B is         *)
(* computed on the value A left in each binding; rolling A back after B    *)
(* leaves every binding A wrote with the value it held before A, B's       *)
(* effect gone, and nothing else changes (no conflict is recorded).        *)
(***************************************************************************)
C30_SecondLayersFirstStomps ==
  [][/\ \A ch \in Channels, method \in ChannelMethods :
          (ChannelCallOn(ch, method) /\ calls = 1) =>
            \A r \in 1..Len(held'[2]) :
              held'[2][r].previous = cache[Slot(held'[2][r].entry)]
     /\ (ChannelRollback(1) /\ Len(held) = 2) =>
          /\ \A r \in 1..Len(held[1]) :
               cache'[Slot(held[1][r].entry)]
                 = InitCache[Slot(held[1][r].entry)]
          /\ UNCHANGED <<entries, held, calls, lastCall>>]_vars

(***************************************************************************)
(* Vocabulary of the unmount properties                                    *)
(***************************************************************************)
\* the bindings a rollback set was captured for
EntriesOf(rbs) == {rbs[i].entry : i \in 1..Len(rbs)}

IsRegistered(reg, b) == SeqContains(getByName(reg, Name(b)), b)

\* the bindings the change wrote that have been unregistered since
Gone(m) == {b \in EntriesOf(Rollbacks(m)) : ~IsRegistered(entries, b)}

\* the bindings the change wrote that are still registered, under a name
\* that lost a binding
Remaining(m) ==
  {b \in EntriesOf(Rollbacks(m)) :
     /\ IsRegistered(entries, b)
     /\ \E g \in Gone(m) : Name(g) = Name(b)}

(***************************************************************************)
(* C31. When a binding under a name was unregistered while the change was  *)
(* pending and another binding under the name stayed registered: on        *)
(* failure the remaining binding holds its value before the change; on     *)
(* success with sync the items of the remaining binding that carried the   *)
(* change's token are the response.                                        *)
(***************************************************************************)
C31_RemainingBindingSettled ==
  [][\A m \in Mutations :
       /\ OnError(m) =>
            \A b \in Remaining(m) : cache'[Slot(b)] = snapshot[m][Slot(b)]
       /\ \A data \in Responses :
            OnSuccess(m, data) =>
              \A i \in 1..Len(Transactions(m)) :
                SyncsTx(Transactions(m)[i], data) =>
                  \A b \in Remaining(m) :
                    Name(b) = Transactions(m)[i].target =>
                      LET pre == ItemsIn(cache[Slot(b)])
                          post == ItemsIn(cache'[Slot(b)])
                      IN /\ Len(post) = Len(pre)
                         /\ \A p \in 1..Len(pre) :
                              TokenOf(pre[p]) = context[m].optimisticId
                                => post[p] = data]_vars

(***************************************************************************)
(* C32. Once a binding has been unregistered, no later step writes through *)
(* it: the applies of a later batch and the sync-replace pass write only   *)
(* bindings that are still registered, the restore actions invoked on      *)
(* failure belong only to bindings that are still registered, and the      *)
(* stored value of a slot that has lost all its bindings no longer         *)
(* changes.                                                                *)
(***************************************************************************)
C32_NoWriteAfterUnregister ==
  [][\A m \in Mutations :
       /\ (\E txs \in Batches : OnMutate(m, txs)) =>
            EntriesOf(context'[m].rollbacks) \cap unmounted = {}
       /\ \A data \in Responses :
            OnSuccess(m, data) =>
              \A i \in 1..Len(Transactions(m)) :
                SyncsTx(Transactions(m)[i], data) =>
                  \A b \in unmounted :
                    ~SeqContains(getByName(entries, Transactions(m)[i].target), b)
       /\ OnError(m) =>
            /\ EntriesOf(Rollbacks(m)) \cap unmounted = {}
            /\ \A s \in Slots :
                 (\A b \in Bindings : Slot(b) = s => ~IsRegistered(entries, b))
                   => cache'[s] = cache[s]]_vars

(***************************************************************************)
(* A mutation and a standalone channel call on the same names: two         *)
(* speculative changes in flight together.                                 *)
(***************************************************************************)
\* the queries mounted while the two changes run
OverlapBindings == {"b1", "b4"}

NextOverlap ==
  \/ \E b \in OverlapBindings : Register(b)
  \/ \E m \in Mutations, txs \in Batches : OnMutate(m, txs)
  \/ \E m \in Mutations, data \in Responses : OnSuccess(m, data)
  \/ \E m \in Mutations : OnError(m)
  \/ \E method \in ChannelMethods : ChannelCall(method)
  \/ \E k \in 1..MaxCalls : ChannelRollback(k)

SpecOverlap == Init /\ [][NextOverlap]_vars

(***************************************************************************)
(* C34. Once a change is Synced or RolledBack, no stored value holds an    *)
(* item with its token, whatever another change on the same name does      *)
(* afterwards.                                                             *)
(***************************************************************************)
C34_NoTokenAfterTerminal ==
  \A m \in Mutations :
    phase[m] \in {"synced", "rolledback"} =>
      \A s \in Slots : ~CarriesToken(cache[s], context[m].optimisticId)

(***************************************************************************)
(* Vocabulary of the registration properties                               *)
(***************************************************************************)
\* every entry the registry holds
RegisteredSet(reg) ==
  UNION {{reg[n][i] : i \in 1..Len(reg[n])} : n \in DOMAIN reg}

\* the entries the effect of an instance can have created
OwnEntries(q) == {EffectEntry(q, n) : n \in 1..4}

\* React has the cleanup of the installed run to execute
CleanupDue(q) ==
  /\ queries[q].effect.installed
  /\ \/ ~queries[q].mounted
     \/ <<queries[q].effect.status, queries[q].effect.data>>
          # <<queries[q].status, queries[q].data>>

MarkersIn(value) ==
  {ItemsIn(value)[p].opt : p \in {i \in 1..Len(ItemsIn(value)) :
                                    "opt" \in DOMAIN ItemsIn(value)[i]}}

C38_ApplyUpdateFrame ==
  [][Applied =>
       LET rbs == held'[Len(held')]
       IN /\ \A s \in Slots \ SlotsUnder(entries, lastCall'.name) :
               cache'[s] = cache[s]
          /\ entries' = entries
          /\ \A r \in 1..Len(rbs) :
               /\ Name(rbs[r].entry) = lastCall'.name
               /\ Restore(cache', rbs[r])[Slot(rbs[r].entry)] = rbs[r].previous
               /\ \A s \in Slots \ {Slot(rbs[r].entry)} :
                    Restore(cache', rbs[r])[s] = cache'[s]]_vars

C38_Witness ==
  /\ lastCall # NoCall
  /\ DOMAIN entries = {"todos", "user"}
  /\ Len(held[Len(held)]) >= 2
  /\ \E r \in 1..Len(held[Len(held)]) :
       held[Len(held)][r].previous # cache[Slot(held[Len(held)][r].entry)]

(***************************************************************************)
(* C39. An update, delete or replace on a collection whose id is the empty *)
(* string matches by that id and does not consult the predicate: an item   *)
(* with another id is neither changed nor removed.                         *)
(***************************************************************************)
C39_EmptyIdStillPrecedes ==
  [][(/\ Applied
      /\ lastCall'.action \in {"update", "delete", "replace"}
      /\ lastCall'.payload.id = "") =>
         LET rbs == held'[Len(held')]
         IN \A r \in WritesTo(rbs, "collection") :
              LET in == rbs[r].previous.items
                  out == Outcome(rbs, cache', r).items
              IN IF lastCall'.action = "delete"
                   THEN out = SelectSeq(in, LAMBDA e : GetId(e) # "")
                 ELSE /\ Len(out) = Len(in)
                      /\ \A p \in 1..Len(in) :
                           GetId(in[p]) # "" => out[p] = in[p]]_vars

(***************************************************************************)
(* C36. When a caller's transform throws in the middle of a batch or of    *)
(* one applyUpdate, every binding is back at its value before the batch,   *)
(* or a restore action for it has been delivered in the context that the   *)
(* failure handling invokes.                                               *)
(***************************************************************************)
C36_ThrowLeavesNoOrphanWrite ==
  [][\A m \in Mutations, txs \in FaultBatches :
       OnMutateThrows(m, txs) =>
         \A s \in Slots :
           \/ cache'[s] = cache[s]
           \/ s \in SlotsOf(context'[m].rollbacks)]_vars

(***************************************************************************)
(* C33. With a remote call that settles, a change that has written at      *)
(* least one binding eventually is Synced, Committed or RolledBack.        *)
(***************************************************************************)
TerminalPhases == {"synced", "committed", "rolledback"}

\* the change has started and a binding holds a write of it
HasWritten(m) ==
  /\ phase[m] # "idle"
  /\ \/ Rollbacks(m) # <<>>
     \/ \E s \in Slots : cache[s] # snapshot[m][s]

C33_ReachesTerminalState ==
  \A m \in Mutations : HasWritten(m) ~> (phase[m] \in TerminalPhases)

====
